---------------------------- MODULE Spec2Model ----------------------------
(***************************************************************************)
(* Model of src/commandModel.js: the Backbone model Command, whose         *)
(* constructor turns one typed line (rawStr) into a method, a supported-   *)
(* option map and a list of general arguments, and the OptionParser it     *)
(* delegates to.                                                           *)
(*                                                                         *)
(* A JavaScript string is a sequence of one-character strings, so that     *)
(* slicing, regular-expression matching, tokenizing and concatenation are  *)
(* computed character by character, the way the code computes them.        *)
(***************************************************************************)
EXTENDS Naturals, Sequences, FiniteSets

VARIABLES
    rawStr,        \* attribute rawStr of the command under construction
    status,        \* attribute status
    result,        \* attribute result
    error,         \* attribute error
    err,           \* attribute err (written by errorChanged)
    generalArgs,   \* attribute generalArgs
    supportedMap,  \* attribute supportedMap
    options,       \* attribute options (the raw remainder string)
    method,        \* attribute method
    createTime,    \* attribute createTime
    onChangeError, \* whether errorChanged is bound to 'change:error'
    str,           \* local variable str of parse
    thrown,        \* the exception in flight between its throw and its catch
    refreshTree,   \* number of 'refreshTree' events triggered by this parse
    fired,         \* indexes of the sandbox actions this parse has run
    pc,            \* position of the constructor
    prevCommand    \* the objects the previous command holds (they stay alive)

vars == << rawStr, status, result, error, err, generalArgs, supportedMap,
           options, method, createTime, onChangeError, str, thrown,
           refreshTree, fired, pc, prevCommand >>

-----------------------------------------------------------------------------
(* Bounds of the model.                                                    *)

\* Tokens after the head of a line of the full input set.
MaxTokens == 3
\* Tokens after the head of a line whose head is not a git commit/checkout.
MaxShortTokens == 1
\* Tokens after the head of a line in the sequence-of-commands specification.
MaxSeqTokens == 2

-----------------------------------------------------------------------------
(* Characters and strings.                                                 *)

\* What the regular-expression class \s matches among the modelled characters.
Whitespace == {" ", "\t"}

Quotes == {"'", "\""}

\* JavaScript's null, for an attribute that otherwise holds a string.
Null == << "null" >>

Min(a, b) == IF a < b THEN a ELSE b

\* s.slice(n)
Slice(s, n) == IF n >= Len(s) THEN << >> ELSE SubSeq(s, n + 1, Len(s))

\* s.slice(0, n)
SliceTo(s, n) == SubSeq(s, 1, Min(n, Len(s)))

\* /^w/ matches s
StartsWith(s, w) == Len(s) >= Len(w) /\ SubSeq(s, 1, Len(w)) = w

\* /^w($|\s)/ matches s
MatchesWord(s, w) ==
    /\ StartsWith(s, w)
    /\ (Len(s) = Len(w) \/ s[Len(w) + 1] \in Whitespace)

\* results[0].length of /^w($|\s)/.exec(s), for a string it matches
MatchedLength(s, w) == IF Len(s) = Len(w) THEN Len(w) ELSE Len(w) + 1

s_git == << "g", "i", "t" >>
s_ls == << "l", "s" >>
s_cd == << "c", "d" >>
s_refresh == << "r", "e", "f", "r", "e", "s", "h" >>
s_svn == << "s", "v", "n" >>
s_fetch == << "f", "e", "t", "c", "h" >>
s_commit == << "c", "o", "m", "m", "i", "t" >>
s_add == << "a", "d", "d" >>
s_checkout == << "c", "h", "e", "c", "k", "o", "u", "t" >>
s_rebase == << "r", "e", "b", "a", "s", "e" >>
s_reset == << "r", "e", "s", "e", "t" >>
s_branch == << "b", "r", "a", "n", "c", "h" >>
s_revert == << "r", "e", "v", "e", "r", "t" >>
s_merge == << "m", "e", "r", "g", "e" >>
s_gc == << "g", "c" >>
s_ga == << "g", "a" >>
s_gchk == << "g", "c", "h", "k" >>
s_gr == << "g", "r" >>
s_gb == << "g", "b" >>
Space == << " " >>

f_amend == << "-", "-", "a", "m", "e", "n", "d" >>
f_a == << "-", "a" >>
f_am == << "-", "a", "m" >>
f_d == << "-", "d" >>
f_D == << "-", "D" >>
f_b == << "-", "b" >>
f_hard == << "-", "-", "h", "a", "r", "d" >>
f_soft == << "-", "-", "s", "o", "f", "t" >>

-----------------------------------------------------------------------------
(* Exceptions.  msg is a fixed text and the string the code appends to it. *)

NoError == [type |-> "null", text |-> "", arg |-> << >>]

CommandResult(text) == [type |-> "CommandResult", text |-> text, arg |-> << >>]

CommandProcessError(text, arg) ==
    [type |-> "CommandProcessError", text |-> text, arg |-> arg]

\* A plain Error, which parseOrCatch rethrows.
PlainError(text, arg) == [type |-> "Error", text |-> text, arg |-> arg]

-----------------------------------------------------------------------------
(* The fixed tables.                                                       *)

\* The pattern/action pairs, in order.  exact: the pattern ends with $.
getSandboxCommands ==
    << [word |-> s_ls, exact |-> FALSE, refresh |-> FALSE,
        msg |-> "DontWorryAboutFilesInThisDemo.txt"],
       [word |-> s_cd, exact |-> FALSE, refresh |-> FALSE,
        msg |-> "Directory Changed to '/directories/dont/matter/in/this/demo'"],
       [word |-> s_git, exact |-> TRUE, refresh |-> FALSE,
        msg |-> "Git Version PCOTTLE.1.0 Usage: git &lt;command&gt; [&lt;args&gt;]"],
       [word |-> s_refresh, exact |-> TRUE, refresh |-> TRUE,
        msg |-> "Refreshing tree..."] >>

\* The canonical prefix of each shortcut, in the order _.each visits them.
getShortcutMap ==
    << [method |-> s_git \o Space \o s_commit, alias |-> s_gc],
       [method |-> s_git \o Space \o s_add, alias |-> s_ga],
       [method |-> s_git \o Space \o s_checkout, alias |-> s_gchk],
       [method |-> s_git \o Space \o s_rebase, alias |-> s_gr],
       [method |-> s_git \o Space \o s_branch, alias |-> s_gb] >>

\* The methods, in the order _.each visits them; each regex is /^method($|\s)/.
getRegexMap ==
    << s_commit, s_add, s_checkout, s_rebase, s_reset, s_branch, s_revert,
       s_merge >>

\* The keys of each method's entry of the master option map, in source order.
masterOptionKeys(m) ==
    CASE m = s_commit -> << f_amend, f_a, f_am >>
      [] m = s_add -> << >>
      [] m = s_branch -> << f_d, f_D >>
      [] m = s_checkout -> << f_b >>
      [] m = s_reset -> << f_hard, f_soft >>
      [] m = s_merge -> << >>
      [] m = s_rebase -> << >>
      [] m = s_revert -> << >>

masterOptionMethods ==
    { s_commit, s_add, s_branch, s_checkout, s_reset, s_merge, s_rebase,
      s_revert }

\* A value of a supported-option map: false, or the array of captured arguments.
FalseValue == [isArray |-> FALSE, items |-> << >>]
ArrayValue(a) == [isArray |-> TRUE, items |-> a]

\* The object literal {}.
EmptyMap == [f \in {} |-> FalseValue]

Range(s) == { s[i] : i \in 1..Len(s) }

\* The object literal the function getMasterOptionMap returns.
MasterOptionLiteral ==
    [m \in masterOptionMethods |->
        [f \in Range(masterOptionKeys(m)) |-> FalseValue]]

\* A table that is one object for the whole process: what the parser of the
\* previous command wrote into its entry is still there.
getMasterOptionMapShared ==
    IF prevCommand.method \in masterOptionMethods
       /\ DOMAIN prevCommand.supportedMap # {}
    THEN [MasterOptionLiteral EXCEPT ![prevCommand.method] = prevCommand.supportedMap]
    ELSE MasterOptionLiteral

\* getMasterOptionMap(): every call evaluates the literal anew.
getMasterOptionMap == MasterOptionLiteral

-----------------------------------------------------------------------------
(* Command.parse, as functions of the string.                              *)

\* Patterns without their $: each matches whatever starts with its word.
sandboxMatchesPrefix(i, s) == StartsWith(s, getSandboxCommands[i].word)

\* regex.exec(s) for the i-th sandbox command
sandboxMatches(i, s) ==
    IF getSandboxCommands[i].exact
    THEN s = getSandboxCommands[i].word
    ELSE StartsWith(s, getSandboxCommands[i].word)

\* The sandbox actions _.each runs on s, from the i-th on: the action of the
\* first pattern that matches throws, which ends the iteration.
RECURSIVE sandboxScan(_, _)
sandboxScan(s, i) ==
    IF i > Len(getSandboxCommands) THEN << >>
    ELSE IF sandboxMatches(i, s) THEN << i >>
    ELSE sandboxScan(s, i + 1)

\* A rewrite that joins the canonical prefix and the rest without the space.
RECURSIVE shortcutScanUnspaced(_, _)
shortcutScanUnspaced(s, i) ==
    IF i > Len(getShortcutMap) THEN s
    ELSE LET e == getShortcutMap[i] IN
         IF MatchesWord(s, e.alias)
         THEN shortcutScanUnspaced(
                e.method \o Slice(s, MatchedLength(s, e.alias)), i + 1)
         ELSE shortcutScanUnspaced(s, i + 1)

\* str after the shortcuts from the i-th on have been tried on it, in order.
RECURSIVE shortcutScan(_, _)
shortcutScan(s, i) ==
    IF i > Len(getShortcutMap) THEN s
    ELSE LET e == getShortcutMap[i] IN
         IF MatchesWord(s, e.alias)
         THEN shortcutScan(
                e.method \o Space \o Slice(s, MatchedLength(s, e.alias)), i + 1)
         ELSE shortcutScan(s, i + 1)

expandShortcuts(s) == shortcutScan(s, 1)

\* str.slice(0,3) !== 'git'
notGit(s) == SliceTo(s, 3) # s_git

\* str.slice('git '.length)
fullCommandOf(s) == Slice(s, 4)

\* The attributes options and method after the methods from the i-th on have
\* been tried on fullCommand; a later match overwrites an earlier one.
RECURSIVE regexScan(_, _, _)
regexScan(fullCommand, i, acc) ==
    IF i > Len(getRegexMap) THEN acc
    ELSE LET m == getRegexMap[i] IN
         IF MatchesWord(fullCommand, m)
         THEN regexScan(fullCommand, i + 1,
                [options |-> Slice(fullCommand, Len(m) + 1), method |-> m])
         ELSE regexScan(fullCommand, i + 1, acc)

resolveMethod(fullCommand, acc) == regexScan(fullCommand, 1, acc)

-----------------------------------------------------------------------------
(* OptionParser.                                                           *)

Minimum(S) == CHOOSE x \in S : \A y \in S : x <= y

\* The matches of /('.*?'|".*?"|\S+)/g in s from position p on: at each
\* position the alternatives are tried in order, and a position where none
\* matches is skipped.
RECURSIVE matchFrom(_, _)
matchFrom(s, p) ==
    IF p > Len(s) THEN << >>
    ELSE LET closing == { k \in (p + 1)..Len(s) : s[k] = s[p] }
             runEnd == Minimum({ k \in p..Len(s) :
                                   k = Len(s) \/ s[k + 1] \in Whitespace })
         IN IF s[p] \in Quotes /\ closing # {}
            THEN << SubSeq(s, p, Minimum(closing)) >>
                    \o matchFrom(s, Minimum(closing) + 1)
            ELSE IF s[p] \notin Whitespace
            THEN << SubSeq(s, p, runEnd) >> \o matchFrom(s, runEnd + 1)
            ELSE matchFrom(s, p + 1)

\* part.replace(/['"]/g, '')
stripQuotes(part) == SelectSeq(part, LAMBDA c : c \notin Quotes)

\* exploded, after the quotes are stripped from every part
explode(rawOptions) ==
    LET matched == matchFrom(rawOptions, 1)
    IN [i \in 1..Len(matched) |-> stripQuotes(matched[i])]

\* part.slice(0,1) == '-'
isOption(part) == SliceTo(part, 1) = << "-" >>

\* A loop that collects nothing: an option takes no arguments.
nextOptionNone(exploded, next) == next

\* next, when the while loop that collects an option's arguments ends
RECURSIVE nextOption(_, _)
nextOption(exploded, next) ==
    IF next <= Len(exploded) /\ ~isOption(exploded[next])
    THEN nextOption(exploded, next + 1)
    ELSE next

\* A loop that never rejects an option: an unknown one is recorded like a
\* supported one.
RECURSIVE explodeLoopLenient(_, _, _, _)
explodeLoopLenient(exploded, i, gArgs, sMap) ==
    IF i > Len(exploded)
    THEN [threw |-> NoError, generalArgs |-> gArgs, supportedMap |-> sMap]
    ELSE LET part == exploded[i]
             next == nextOption(exploded, i + 1)
             args == ArrayValue(SubSeq(exploded, i + 1, next - 1))
         IN IF isOption(part)
            THEN explodeLoopLenient(exploded, next, gArgs,
                    [f \in DOMAIN sMap \cup {part} |->
                        IF f = part THEN args ELSE sMap[f]])
            ELSE explodeLoopLenient(exploded, i + 1, Append(gArgs, part), sMap)

\* The for loop of explodeAndSet from index i on (the first part is
\* exploded[1]), with this.generalArgs and this.supportedMap as they are then.
RECURSIVE explodeLoop(_, _, _, _)
explodeLoop(exploded, i, gArgs, sMap) ==
    IF i > Len(exploded)
    THEN [threw |-> NoError, generalArgs |-> gArgs, supportedMap |-> sMap]
    ELSE LET part == exploded[i]
             next == nextOption(exploded, i + 1)
         IN IF isOption(part)
            THEN IF part \notin DOMAIN sMap
                 THEN [threw |-> CommandProcessError(
                                   "The option \"_\" is not supported", part),
                       generalArgs |-> gArgs, supportedMap |-> sMap]
                 ELSE explodeLoop(exploded, next, gArgs,
                        [sMap EXCEPT
                           ![part] = ArrayValue(SubSeq(exploded, i + 1, next - 1))])
            ELSE explodeLoop(exploded, i + 1, Append(gArgs, part), sMap)

\* A parser whose map holds only the options that occurred.
explodeAndSetEncountered(rawOptions, sMap) ==
    LET r == explodeLoop(explode(rawOptions), 1, << >>, sMap)
    IN [r EXCEPT !.supportedMap =
          [f \in { g \in DOMAIN r.supportedMap : r.supportedMap[g].isArray } |->
              r.supportedMap[f]]]

\* A loop that starts at the second part.
explodeAndSetFromSecond(rawOptions, sMap) ==
    explodeLoop(explode(rawOptions), 2, << >>, sMap)

\* explodeAndSet(), on a parser whose generalArgs is [].
explodeAndSet(rawOptions, sMap) == explodeLoop(explode(rawOptions), 1, << >>, sMap)

\* The constructor of OptionParser, given the object getMasterOptionMap()
\* returns to it: what it throws, and the fields of the parser.
OptionParserOn(table, m, rawOptions) ==
    IF m \notin DOMAIN table
    THEN [threw |-> PlainError("No option map for ", m),
          generalArgs |-> << >>, supportedMap |-> EmptyMap]
    ELSE explodeAndSet(rawOptions, table[m])

\* new OptionParser(method, options)
OptionParser(m, rawOptions) == OptionParserOn(getMasterOptionMap, m, rawOptions)

-----------------------------------------------------------------------------
(* The constructor of Command as a function of the line: the command it    *)
(* leaves behind.  ended is "done" when the constructor returns and        *)
(* "thrown" when an exception leaves it.                                   *)

\* The command after parseOrCatch has caught e, errorChanged being bound.
caughtCommand(e, m, o) ==
    [ended |-> "done", status |-> "error", error |-> e, method |-> m,
     options |-> o, generalArgs |-> << >>, supportedMap |-> EmptyMap]

\* The command an exception has left the constructor of.
abortedCommand(m, o) ==
    [ended |-> "thrown", status |-> "inqueue", error |-> NoError, method |-> m,
     options |-> o, generalArgs |-> << >>, supportedMap |-> EmptyMap]

classifyOn(table, raw) ==
    IF raw = << >> THEN abortedCommand(Null, Null)
    ELSE IF sandboxScan(raw, 1) # << >>
    THEN caughtCommand(
           CommandResult(getSandboxCommands[sandboxScan(raw, 1)[1]].msg),
           Null, Null)
    ELSE LET s == expandShortcuts(raw)
             r == resolveMethod(fullCommandOf(s),
                                [options |-> Null, method |-> Null])
             optionParser == OptionParserOn(table, r.method, r.options)
         IN IF notGit(s)
            THEN caughtCommand(
                   CommandProcessError("Git commands only, sorry!", << >>),
                   Null, Null)
            ELSE IF r.method = Null
            THEN caughtCommand(
                   CommandProcessError(
                     "Sorry, this demo does not support that git command: ",
                     fullCommandOf(s)),
                   Null, Null)
            ELSE IF optionParser.threw.type = "Error"
            THEN abortedCommand(r.method, r.options)
            ELSE IF optionParser.threw # NoError
            THEN caughtCommand(optionParser.threw, r.method, r.options)
            ELSE [ended |-> "done", status |-> "inqueue", error |-> NoError,
                  method |-> r.method, options |-> r.options,
                  generalArgs |-> optionParser.generalArgs,
                  supportedMap |-> optionParser.supportedMap]

\* new Command({rawStr: raw})
classify(raw) == classifyOn(getMasterOptionMap, raw)

-----------------------------------------------------------------------------
(* The lines typed.                                                        *)

\* The tokens a line is made of after its head, as typed.
Pieces ==
    { f_a, f_amend, f_b, << "x" >>, << "'", "x", " ", "y", "'" >>,
      << "\"", "-", "b", "\"" >>, << "'", "'" >> }

SeqPieces == { f_a, f_b, << "x" >> }

\* The texts of at most k pieces of P, each after a space.
RECURSIVE Suffixes(_, _)
Suffixes(P, k) ==
    IF k = 0 THEN { << >> }
    ELSE Suffixes(P, k - 1)
           \cup { s \o Space \o q : s \in Suffixes(P, k - 1), q \in P }

FullHeads == { s_git \o Space \o s_commit, s_gc, s_git \o Space \o s_checkout }

ShortHeads ==
    { s_ls, s_cd, s_git, s_refresh, s_svn, s_ga, s_gchk, s_gr, s_gb,
      s_git \o Space \o s_fetch, s_git \o << "x" >> \o s_commit,
      s_git \o << "\t" >> \o s_commit, s_git \o Space \o Space \o s_commit,
      s_git \o Space \o s_commit \o << "x" >> }
      \cup { s_git \o Space \o getRegexMap[i] : i \in 1..Len(getRegexMap) }

SeqHeads ==
    { s_git \o Space \o s_commit, s_gc, s_git \o Space \o s_checkout, s_ls,
      s_refresh, s_svn }

Inputs ==
    { << >> }
      \cup { h \o s : h \in FullHeads, s \in Suffixes(Pieces, MaxTokens) }
      \cup { h \o s : h \in ShortHeads, s \in Suffixes(Pieces, MaxShortTokens) }

SeqInputs == { h \o s : h \in SeqHeads, s \in Suffixes(SeqPieces, MaxSeqTokens) }

-----------------------------------------------------------------------------
(* The constructor of Command, step by step.                               *)

\* No command was constructed before.
NoCommand == [method |-> Null, supportedMap |-> EmptyMap, generalArgs |-> << >>]

\* result, before and after formatError.
Unformatted == [formatted |-> FALSE, of |-> NoError]
toResult(e) == [formatted |-> TRUE, of |-> e]

\* new Command({rawStr: raw}): the attributes are the defaults and rawStr.
defaults(raw) ==
    /\ rawStr = raw
    /\ status = "inqueue"
    /\ result = Unformatted
    /\ error = NoError
    /\ err = NoError
    /\ generalArgs = << >>
    /\ supportedMap = EmptyMap
    /\ options = Null
    /\ method = Null
    /\ createTime = "null"
    /\ onChangeError = FALSE
    /\ str = Null
    /\ thrown = NoError
    /\ refreshTree = 0
    /\ fired = << >>
    /\ pc = "validateAtInit"

Init ==
    /\ \E raw \in Inputs : defaults(raw)
    /\ prevCommand = NoCommand

InitSeq ==
    /\ \E raw \in SeqInputs : defaults(raw)
    /\ prevCommand = NoCommand

\* validateAtInit: an empty rawStr is falsy.
ValidateAtInit ==
    /\ pc = "validateAtInit"
    /\ IF rawStr = << >>
       THEN /\ thrown' = PlainError("Give me a string!", << >>)
            /\ pc' = "thrown"
            /\ UNCHANGED << createTime, onChangeError >>
       ELSE /\ createTime' = "set"
            /\ onChangeError' = TRUE
            /\ pc' = "parse"
            /\ UNCHANGED thrown
    /\ UNCHANGED << rawStr, status, result, error, err, generalArgs,
                    supportedMap, options, method, str, refreshTree, fired,
                    prevCommand >>

\* parse: the blank-line check.
Parse ==
    /\ pc = "parse"
    /\ str' = rawStr
    /\ IF Len(rawStr) = 0
       THEN thrown' = CommandResult("") /\ pc' = "catch"
       ELSE pc' = "sandboxCommands" /\ UNCHANGED thrown
    /\ UNCHANGED << rawStr, status, result, error, err, generalArgs,
                    supportedMap, options, method, createTime, onChangeError,
                    refreshTree, fired, prevCommand >>

\* parse: the sandbox commands.
SandboxCommands ==
    /\ pc = "sandboxCommands"
    /\ fired' = sandboxScan(str, 1)
    /\ IF fired' # << >>
       THEN LET c == getSandboxCommands[fired'[1]]
            IN /\ refreshTree' = IF c.refresh THEN refreshTree + 1 ELSE refreshTree
               /\ thrown' = CommandResult(c.msg)
               /\ pc' = "catch"
       ELSE pc' = "shortcutMap" /\ UNCHANGED << thrown, refreshTree >>
    /\ UNCHANGED << rawStr, status, result, error, err, generalArgs,
                    supportedMap, options, method, createTime, onChangeError,
                    str, prevCommand >>

\* parse: the shortcuts.
ShortcutMap ==
    /\ pc = "shortcutMap"
    /\ str' = expandShortcuts(str)
    /\ pc' = "beginsWithGit"
    /\ UNCHANGED << rawStr, status, result, error, err, generalArgs,
                    supportedMap, options, method, createTime, onChangeError,
                    thrown, refreshTree, fired, prevCommand >>

\* parse: see if begins with git.
BeginsWithGit ==
    /\ pc = "beginsWithGit"
    /\ IF notGit(str)
       THEN /\ thrown' = CommandProcessError("Git commands only, sorry!", << >>)
            /\ pc' = "catch"
       ELSE pc' = "gitParse" /\ UNCHANGED thrown
    /\ UNCHANGED << rawStr, status, result, error, err, generalArgs,
                    supportedMap, options, method, createTime, onChangeError,
                    str, refreshTree, fired, prevCommand >>

\* gitParse, up to the construction of the option parser.
GitParse ==
    /\ pc = "gitParse"
    /\ LET r == resolveMethod(fullCommandOf(str),
                              [options |-> options, method |-> method])
       IN /\ options' = r.options
          /\ method' = r.method
          /\ IF r.method = Null
             THEN /\ thrown' = CommandProcessError(
                      "Sorry, this demo does not support that git command: ",
                      fullCommandOf(str))
                  /\ pc' = "catch"
             ELSE pc' = "optionParser" /\ UNCHANGED thrown
    /\ UNCHANGED << rawStr, status, result, error, err, generalArgs,
                    supportedMap, createTime, onChangeError, str, refreshTree,
                    fired, prevCommand >>

\* gitParse: the option parser is constructed and its fields are stolen.
NewOptionParser ==
    /\ pc = "optionParser"
    /\ LET optionParser == OptionParser(method, options)
       IN IF optionParser.threw # NoError
          THEN /\ thrown' = optionParser.threw
               /\ pc' = "catch"
               /\ UNCHANGED << generalArgs, supportedMap >>
          ELSE /\ generalArgs' = optionParser.generalArgs
               /\ supportedMap' = optionParser.supportedMap
               /\ pc' = "done"
               /\ UNCHANGED thrown
    /\ UNCHANGED << rawStr, status, result, error, err, options, method,
                    createTime, onChangeError, str, refreshTree, fired,
                    prevCommand >>

\* The status parseOrCatch sets for an exception it handles.
caughtStatus(e) ==
    IF e.type \in {"CommandProcessError", "GitError"} THEN "error" ELSE "finished"

\* The catch block of parseOrCatch.  set('error', e) changes the attribute,
\* so Backbone calls errorChanged before set returns.
ParseOrCatch ==
    /\ pc = "catch"
    /\ IF thrown.type \in {"CommandProcessError", "GitError", "CommandResult"}
       THEN /\ error' = thrown
            /\ IF onChangeError /\ error # thrown
               THEN /\ err' = thrown
                    /\ status' = "error"
                    /\ result' = toResult(thrown)
               ELSE /\ status' = caughtStatus(thrown)
                    /\ UNCHANGED << err, result >>
            /\ thrown' = NoError
            /\ pc' = "done"
       ELSE /\ pc' = "thrown"
            /\ UNCHANGED << error, err, status, result, thrown >>
    /\ UNCHANGED << rawStr, generalArgs, supportedMap, options, method,
                    createTime, onChangeError, str, refreshTree, fired,
                    prevCommand >>

\* The next line is typed: a new command is constructed, and the previous
\* one stays in the history.
NextCommand ==
    /\ pc \in {"done", "thrown"}
    /\ prevCommand' = [method |-> method, supportedMap |-> supportedMap,
                       generalArgs |-> generalArgs]
    /\ \E raw \in SeqInputs :
        /\ rawStr' = raw
        /\ status' = "inqueue"
        /\ result' = Unformatted
        /\ error' = NoError
        /\ err' = NoError
        /\ generalArgs' = << >>
        /\ supportedMap' = EmptyMap
        /\ options' = Null
        /\ method' = Null
        /\ createTime' = "null"
        /\ onChangeError' = FALSE
        /\ str' = Null
        /\ thrown' = NoError
        /\ refreshTree' = 0
        /\ fired' = << >>
        /\ pc' = "validateAtInit"

Next ==
    \/ ValidateAtInit
    \/ Parse
    \/ SandboxCommands
    \/ ShortcutMap
    \/ BeginsWithGit
    \/ GitParse
    \/ NewOptionParser
    \/ ParseOrCatch

NextSeq == Next \/ NextCommand

\* One line is typed.
Spec == Init /\ [][Next]_vars

\* Lines are typed one after another.
SpecSeq == InitSeq /\ [][NextSeq]_vars

-----------------------------------------------------------------------------
(* What the claims speak about.                                            *)

\* The constructor has ended: it returned, or an exception left it.
Ended == pc \in {"done", "thrown"}

\* The command as the constructor left it.
Command ==
    [ended |-> pc, status |-> status, error |-> error, method |-> method,
     options |-> options, generalArgs |-> generalArgs,
     supportedMap |-> supportedMap]

\* The parse succeeded: a ParsedCommand was produced.
Parsed == pc = "done" /\ error = NoError

\* The exception of this parse: in flight, or recorded.
Raised == IF pc = "catch" THEN thrown ELSE error

UnsupportedOption(part) ==
    CommandProcessError("The option \"_\" is not supported", part)

Maximum(S) == CHOOSE x \in S : \A y \in S : y <= x

\* The positions of the tokens that are flags.
FlagPositions(tokens) == { i \in 1..Len(tokens) : isOption(tokens[i]) }

\* The tokens from position i + 1 up to the next flag or the end.
ArgumentsAfter(tokens, i) ==
    LET later == { j \in FlagPositions(tokens) : j > i }
    IN SubSeq(tokens, i + 1,
              IF later = {} THEN Len(tokens) ELSE Minimum(later) - 1)

\* The tokens before the first flag.
BeforeFirstFlag(tokens) ==
    SubSeq(tokens, 1,
           IF FlagPositions(tokens) = {} THEN Len(tokens)
           ELSE Minimum(FlagPositions(tokens)) - 1)

Join(seqs) ==
    LET RECURSIVE join(_)
        join(i) == IF i > Len(seqs) THEN << >> ELSE seqs[i] \o join(i + 1)
    IN join(1)

\* A token as it can be typed: in double quotes when it is empty or contains
\* whitespace (a token never contains a quote, they are stripped).
Typed(tok) ==
    IF tok = << >> \/ \E i \in 1..Len(tok) : tok[i] \in Whitespace
    THEN << "\"" >> \o tok \o << "\"" >>
    ELSE tok

\* The text of the tokens ts, each after a space.
Spaced(ts) == Join([i \in 1..Len(ts) |-> Space \o Typed(ts[i])])

\* A parsed command re-assembled into text: the method, then every flag that
\* occurred followed by its arguments, then the general arguments.
Render(m, sMap, gArgs) ==
    LET keys == SelectSeq(masterOptionKeys(m), LAMBDA f : sMap[f].isArray)
    IN s_git \o Space \o m
         \o Join([i \in 1..Len(keys) |->
                    Space \o keys[i] \o Spaced(sMap[keys[i]].items)])
         \o Spaced(gArgs)

NoFlagOccurred == \A f \in DOMAIN supportedMap : ~supportedMap[f].isArray

\* The parsed command and the re-parse of its rendering agree.
SameParsedCommand(c) ==
    /\ c.ended = "done" /\ c.error = NoError
    /\ c.method = method
    /\ c.supportedMap = supportedMap
    /\ c.generalArgs = generalArgs

-----------------------------------------------------------------------------
(* The claims.                                                             *)

\* C1: constructing a command from the empty line ends with the non-error
\* pseudo-result of message "" recorded on it, and nothing else is raised
\* before the blank-line check of parse is reached.
C1_EmptyLineYieldsBlankResult ==
    (rawStr = << >> /\ Ended)
        => (pc = "done" /\ error = CommandResult("") /\ thrown = NoError)

\* C2: a line that starts with a shortcut alias, alone or followed by a space
\* and any text, ends as the same command as the line with the alias
\* replaced by its canonical prefix.
C2_ShortcutPreservesTrailingText ==
    Ended =>
        \A i \in 1..Len(getShortcutMap) :
            LET e == getShortcutMap[i]
            IN /\ rawStr = e.alias => Command = classify(e.method)
               /\ StartsWith(rawStr, e.alias \o Space)
                    => Command = classify(e.method \o Slice(rawStr, Len(e.alias)))

\* C2 happens: "gc --amend" was parsed into a commit with --amend captured.
C2_Witness ==
    /\ Ended
    /\ rawStr = s_gc \o Space \o f_amend
    /\ method = s_commit
    /\ supportedMap[f_amend] = ArrayValue(<< >>)

\* C3: once a method is resolved, the first token that starts with '-' and is
\* not a supported option of the method is the one the raised error names,
\* and generalArgs and supportedMap of the command keep their initial values.
C3_FirstUnsupportedOptionFails ==
    (pc \in {"catch", "done"} /\ method # Null) =>
        LET tokens == explode(options)
            bad == { i \in FlagPositions(tokens) :
                       tokens[i] \notin Range(masterOptionKeys(method)) }
        IN /\ bad # {} =>
                /\ Raised = UnsupportedOption(tokens[Minimum(bad)])
                /\ generalArgs = << >>
                /\ supportedMap = EmptyMap
                /\ pc = "done" => status = "error"
           /\ bad = {} => Raised = NoError

\* C3 happens: in "git commit x -a -b" a general argument and a supported
\* flag precede the unsupported -b, and the parse failed on -b.
C3_Witness ==
    /\ pc = "done"
    /\ method = s_commit
    /\ explode(options) = << << "x" >>, f_a, f_b >>
    /\ error = UnsupportedOption(f_b)
    /\ generalArgs = << >>

\* C4 as stated: on a successful parse every key of the option mapping is a
\* flag that occurred in the remainder.
C4_OnlyEncounteredFlagsAreKeys ==
    Parsed =>
        \A f \in DOMAIN supportedMap : f \in Range(explode(options))

\* C4 as amended: on a successful parse the keys of the option mapping are
\* all the supported options of the method; one that occurred maps to an
\* argument list and one that did not occur maps to false.
C4_EncounteredFlagsAreArrays ==
    Parsed =>
        /\ DOMAIN supportedMap = Range(masterOptionKeys(method))
        /\ \A f \in DOMAIN supportedMap :
            IF f \in Range(explode(options))
            THEN /\ supportedMap[f].isArray
                 /\ \E i \in FlagPositions(explode(options)) :
                      /\ explode(options)[i] = f
                      /\ supportedMap[f].items = ArgumentsAfter(explode(options), i)
            ELSE supportedMap[f] = FalseValue

\* C4 happens: "git commit -a x" succeeded, -a holds [x] and --amend, which
\* did not occur, is a key that holds false.
C4_Witness ==
    /\ Parsed
    /\ method = s_commit
    /\ explode(options) = << f_a, << "x" >> >>
    /\ supportedMap[f_a] = ArrayValue(<< << "x" >> >>)
    /\ supportedMap[f_amend] = FalseValue

\* C5 as stated: the rendering of every parsed command (a token that is empty
\* or contains whitespace typed in quotes) parses to an equal parsed command.
C5_ReparseOfRenderingIsEqual ==
    Parsed => SameParsedCommand(classify(Render(method, supportedMap, generalArgs)))

\* C5 as amended: the rendering of a parsed command parses to an equal parsed
\* command when no flag occurred or there are no general arguments.
C5_ReparseOfUnmixedRenderingIsEqual ==
    (Parsed /\ (NoFlagOccurred \/ generalArgs = << >>))
        => SameParsedCommand(classify(Render(method, supportedMap, generalArgs)))

\* C5 happens: "git commit -a x --amend" was parsed, and it has flags with
\* arguments and no general arguments.
C5_Witness ==
    /\ Parsed
    /\ method = s_commit
    /\ generalArgs = << >>
    /\ supportedMap[f_a] = ArrayValue(<< << "x" >> >>)
    /\ supportedMap[f_amend] = ArrayValue(<< >>)

\* C6: at most one sandbox action runs, nothing of the parse happens after
\* it, 'refreshTree' is triggered at most once and only for the line
\* "refresh", and it has been triggered when the result is recorded.
C6_OnePseudoCommandHalts ==
    /\ Len(fired) <= 1
    /\ fired # << >> =>
        /\ pc \in {"catch", "done"}
        /\ str = rawStr
        /\ method = Null /\ options = Null
        /\ generalArgs = << >> /\ supportedMap = EmptyMap
        /\ Raised = CommandResult(getSandboxCommands[fired[1]].msg)
    /\ refreshTree <= 1
    /\ refreshTree = 1 => (rawStr = s_refresh /\ fired = << 4 >>)
    /\ error = CommandResult("Refreshing tree...") => refreshTree = 1
    /\ (refreshTree = 1 /\ pc = "catch") => error = NoError

\* C6 happens: "refresh" has triggered the event and the result is recorded.
C6_Witness ==
    /\ pc = "done"
    /\ rawStr = s_refresh
    /\ refreshTree = 1
    /\ error = CommandResult("Refreshing tree...")

\* C7: whatever was parsed before, a line ends as the command it ends as in
\* a process that has parsed nothing, where the option parser is given the
\* table as written.
C7_NoStateAcrossParses ==
    Ended => Command = classifyOn(MasterOptionLiteral, rawStr)

\* C7 happens: the previous commit captured arguments for -a, and this
\* commit, in which -a does not occur, holds false for it.
C7_Witness ==
    /\ Parsed
    /\ prevCommand.method = s_commit
    /\ prevCommand.supportedMap[f_a].isArray
    /\ method = s_commit
    /\ supportedMap[f_a] = FalseValue

\* C8: on a successful parse generalArgs is the run of tokens before the
\* first flag, a flag that occurs holds the tokens between its last
\* occurrence and the next flag, and no general argument starts with '-'.
C8_TokenPartition ==
    Parsed =>
        LET tokens == explode(options)
        IN /\ generalArgs = BeforeFirstFlag(tokens)
           /\ \A i \in 1..Len(generalArgs) : ~isOption(generalArgs[i])
           /\ \A f \in DOMAIN supportedMap :
                LET occ == { i \in FlagPositions(tokens) : tokens[i] = f }
                IN occ # {} =>
                     supportedMap[f] = ArrayValue(ArgumentsAfter(tokens, Maximum(occ)))
           /\ \A i \in FlagPositions(tokens) : tokens[i] \in DOMAIN supportedMap

\* C8 happens: in "git commit -a x -a" the flag -a occurs twice and holds the
\* arguments of its last occurrence, none.
C8_Witness ==
    /\ Parsed
    /\ explode(options) = << f_a, << "x" >>, f_a >>
    /\ supportedMap[f_a] = ArrayValue(<< >>)

\* C9: after the constructor has returned, the status is 'finished' when a
\* CommandResult was recorded, 'error' when a CommandProcessError or GitError
\* was recorded, and 'inqueue' when the parse succeeded.
C9_StatusLifecycle ==
    pc = "done" =>
        /\ error.type = "CommandResult" => status = "finished"
        /\ error.type \in {"CommandProcessError", "GitError"} => status = "error"
        /\ error = NoError => status = "inqueue"

\* C10: a method is resolved only for a line that, after shortcut expansion,
\* is 'git', one space, and the method followed by the end or by whitespace.
C10_MethodOnlyAfterGitSpace ==
    (pc \in {"optionParser", "catch", "done"} /\ method # Null) =>
        MatchesWord(str, s_git \o Space \o method)

=============================================================================
